---- MODULE Spec2Model ----
(***************************************************************************)
(* Model of the exception-flag engine of swingft_cli                       *)
(* (src/src/swingft_cli/core/config/loader.py and conflicts.py): the       *)
(* Matcher/Updater _update_ast_node_exceptions, the conflict computation   *)
(* and the interactive run of _check_exception_conflicts.                  *)
(*                                                                         *)
(* Strings of the program are sequences of one-character strings, so that  *)
(* trimming, splitting, lower-casing and glob matching are computed.       *)
(***************************************************************************)
EXTENDS Integers, Sequences, FiniteSets, TLC

\* ------------------------------------------------------------------------
\* Bounds of the model
\* ------------------------------------------------------------------------
MaxNodes == 3
MaxPasses == 2

\* ------------------------------------------------------------------------
\* Strings
\* ------------------------------------------------------------------------
\* str.lower() on one character (the letters the bounded inputs use)
LowerChar(c) ==
    CASE c = "O" -> "o" [] c = "F" -> "f" [] c = "B" -> "b" [] c = "Q" -> "q"
      [] c = "C" -> "c" [] c = "Y" -> "y" [] c = "E" -> "e" [] c = "S" -> "s"
      [] c = "A" -> "a" [] c = "K" -> "k" [] OTHER -> c

\* str.lower()
StrLower(s) == [i \in 1..Len(s) |-> LowerChar(s[i])]

RECURSIVE LStrip(_)
LStrip(s) == IF s # <<>> /\ Head(s) = " " THEN LStrip(Tail(s)) ELSE s

RECURSIVE RStrip(_)
RStrip(s) ==
    IF s # <<>> /\ s[Len(s)] = " " THEN RStrip(SubSeq(s, 1, Len(s) - 1)) ELSE s

\* str.strip()
Strip(s) == RStrip(LStrip(s))

\* index of the first occurrence of character c in s, 0 when absent
RECURSIVE IndexFrom(_, _, _)
IndexFrom(s, c, i) ==
    IF i > Len(s) THEN 0 ELSE IF s[i] = c THEN i ELSE IndexFrom(s, c, i + 1)

IndexOf(s, c) == IndexFrom(s, c, 1)

\* str.split(c)
RECURSIVE Split(_, _)
Split(s, c) ==
    LET i == IndexOf(s, c) IN
    IF i = 0 THEN <<s>>
    ELSE <<SubSeq(s, 1, i - 1)>> \o Split(SubSeq(s, i + 1, Len(s)), c)

\* the last n elements of a list: lst[-n:] for 0 < n <= len(lst)
Suffix(lst, n) == SubSeq(lst, Len(lst) - n + 1, Len(lst))

\* identifiers and kinds used by the bounded inputs
Outer == <<"O","u","t","e","r">>
inner == <<"i","n","n","e","r">>
NoName == <<>>
KFunction == <<"f","u","n","c","t","i","o","n">>
KClass == <<"c","l","a","s","s">>

\* ------------------------------------------------------------------------
\* The declaration tree document (ast_node.json)
\* ------------------------------------------------------------------------
\* isException is absent, 0 or 1; Absent encodes the missing key.
Absent == -1

\* A node record.  parent = 0 for a top-level node, else the index of the
\* enclosing node; via tells under which key of the parent the node hangs:
\*   "cur"     a CONTAINER_KEYS field of the canonical node,
\*   "wrapper" a CONTAINER_KEYS field (not 'node') of the parent's wrapper,
\*   "other"   any other field.
Node(nm, kd, ex, par, v) ==
    [A_name |-> nm, B_kind |-> kd, isException |-> ex, parent |-> par,
     via |-> v, no_inherit |-> FALSE]

\* children of node i (0: the top-level list) that _walk descends into,
\* containers of cur first, then the sibling containers of the wrapper
ChildrenVia(ast, i, v) ==
    LET RECURSIVE From(_)
        From(j) ==
            IF j > Len(ast) THEN <<>>
            ELSE IF ast[j].parent = i /\ ast[j].via = v
                 THEN <<j>> \o From(j + 1)
                 ELSE From(j + 1)
    IN From(1)

ContainerChildren(ast, i) ==
    ChildrenVia(ast, i, "cur") \o ChildrenVia(ast, i, "wrapper")

\* ------------------------------------------------------------------------
\* _update_ast_node_exceptions
\* ------------------------------------------------------------------------
\* _parse_spec with every segment of the split kept, blank or not
parse_spec_keep_blank(spec) ==
    LET s == Strip(spec)
        c == IndexOf(s, ":")
        k == IF c = 0 THEN <<>> ELSE StrLower(Strip(SubSeq(s, 1, c - 1)))
        path_part == IF c = 0 THEN s ELSE Strip(SubSeq(s, c + 1, Len(s)))
        parts == Split(path_part, ".")
    IN  [kind_hint |-> k,
         parent_path |-> SubSeq(parts, 1, Len(parts) - 1),
         leaf |-> parts[Len(parts)]]

\* _parse_spec: (kind_hint, parent_path, leaf); no kind hint is <<>>
parse_spec(spec) ==
    LET s == Strip(spec)
        c == IndexOf(s, ":")
        k == IF c = 0 THEN <<>> ELSE StrLower(Strip(SubSeq(s, 1, c - 1)))
        path_part == IF c = 0 THEN s ELSE Strip(SubSeq(s, c + 1, Len(s)))
        parts == SelectSeq(Split(path_part, "."), LAMBDA p : Strip(p) # <<>>)
    IN  IF parts = <<>>
        THEN [kind_hint |-> k, parent_path |-> <<>>, leaf |-> <<>>]
        ELSE [kind_hint |-> k,
              parent_path |-> SubSeq(parts, 1, Len(parts) - 1),
              leaf |-> parts[Len(parts)]]

\* parsed_targets: the specs that are non-empty after trimming, parsed
parsed_targets_of(identifiers) ==
    LET kept == SelectSeq(identifiers, LAMBDA x : Strip(x) # <<>>)
    IN  [i \in 1..Len(kept) |-> parse_spec(kept[i])]

\* target_matches with the parent path compared with the outermost
\* ancestors instead of the nearest ones
target_matches_prefix(t, parent_names, name, kind, allowed_kinds) ==
    /\ \/ t.parent_path = <<>>
       \/ /\ Len(t.parent_path) <= Len(parent_names)
          /\ SubSeq(parent_names, 1, Len(t.parent_path)) = t.parent_path
    /\ (t.leaf = <<>> \/ t.leaf = name)
    /\ (allowed_kinds = {} \/ kind \in allowed_kinds)
    /\ (t.kind_hint = <<>> \/ t.kind_hint = kind)

\* target_matches without the allowed_kinds filter
target_matches_anykind(t, parent_names, name, kind, allowed_kinds) ==
    /\ \/ t.parent_path = <<>>
       \/ /\ Len(t.parent_path) <= Len(parent_names)
          /\ Suffix(parent_names, Len(t.parent_path)) = t.parent_path
    /\ (t.leaf = <<>> \/ t.leaf = name)
    /\ (t.kind_hint = <<>> \/ t.kind_hint = kind)

\* target_matches with a rule without parent path held to the top level
target_matches_toplevel(t, parent_names, name, kind, allowed_kinds) ==
    /\ \/ t.parent_path = <<>> /\ parent_names = <<>>
       \/ /\ t.parent_path # <<>>
          /\ Len(t.parent_path) <= Len(parent_names)
          /\ Suffix(parent_names, Len(t.parent_path)) = t.parent_path
    /\ (t.leaf = <<>> \/ t.leaf = name)
    /\ (allowed_kinds = {} \/ kind \in allowed_kinds)
    /\ (t.kind_hint = <<>> \/ t.kind_hint = kind)

\* the guards of the loop over parsed_targets in _walk (lines 862-873)
target_matches(t, parent_names, name, kind, allowed_kinds) ==
    /\ \/ t.parent_path = <<>>
       \/ /\ Len(t.parent_path) <= Len(parent_names)
          /\ Suffix(parent_names, Len(t.parent_path)) = t.parent_path
    /\ (t.leaf = <<>> \/ t.leaf = name)
    /\ (allowed_kinds = {} \/ kind \in allowed_kinds)
    /\ (t.kind_hint = <<>> \/ t.kind_hint = kind)

\* the counters and sets of one pass, with the tree held in memory
InitialCounters(ast) ==
    [ast |-> ast,
     updated_nodes |-> 0,
     already_same_nodes |-> 0,
     matched_ident_names |-> {},
     changed_ident_names |-> {},
     already_one_ident_names |-> {},
     already_zero_ident_names |-> {},
     updated_paths |-> {},
     visited |-> {},
     matched_by |-> {}]

\* gate_skips without the test that the key exists
gate_skips_nokey(only_when_explicit_zero, is_exception, has_key, prev_val) ==
    only_when_explicit_zero /\ is_exception = 1 /\ ~(prev_val = 0)

\* line 887: the explicit-zero gate skips the change
gate_skips(only_when_explicit_zero, is_exception, has_key, prev_val) ==
    only_when_explicit_zero /\ is_exception = 1 /\ ~(has_key /\ prev_val = 0)

\* descends without the lock: always into the children
descends_always(lock_children, matched_here) == TRUE

\* descends with "or" for "and"
descends_or(lock_children, matched_here) == ~(lock_children \/ matched_here)

\* line 931: whether _walk goes on into the children of a node
descends(lock_children, matched_here) == ~(lock_children /\ matched_here)

\* missing_names over the targets without a parent path only
missing_names_unscoped(parsed_targets, matched_ident_names) ==
    ({parsed_targets[k].leaf :
        k \in {j \in 1..Len(parsed_targets) : parsed_targets[j].parent_path = <<>>}}
     \ {<<>>}) \ matched_ident_names

\* lines 958-959: the requested leaf names that no matched node carries
missing_names(parsed_targets, matched_ident_names) ==
    ({parsed_targets[k].leaf : k \in 1..Len(parsed_targets)} \ {<<>>})
        \ matched_ident_names

\* one iteration of the loop over parsed_targets for node i whose guards
\* let target k through (lines 875-928); visited and matched_by record
\* which nodes _walk reached and which target matched which node
apply_target(st, i, k, parent_names, a) ==
    LET cur == st.ast[i]
        name == Strip(cur.A_name)
        kind == StrLower(Strip(cur.B_kind))
        has_key == cur.isException # Absent
        prev_val == IF has_key THEN cur.isException ELSE 0
        st1 == [st EXCEPT !.matched_ident_names =
                    IF name # <<>> THEN @ \cup {name} ELSE @]
        st2 ==
            IF gate_skips(a.only_when_explicit_zero, a.is_exception,
                          has_key, prev_val)
            THEN [st1 EXCEPT
                    !.already_same_nodes = @ + 1,
                    !.already_one_ident_names =
                        IF name # <<>> /\ prev_val = 1 THEN @ \cup {name} ELSE @,
                    !.already_zero_ident_names =
                        IF name # <<>> /\ prev_val # 1 THEN @ \cup {name} ELSE @]
            ELSE IF prev_val # a.is_exception
            THEN [st1 EXCEPT
                    !.ast[i].isException = a.is_exception,
                    !.updated_nodes = @ + 1,
                    !.changed_ident_names =
                        IF name # <<>> THEN @ \cup {name} ELSE @,
                    !.updated_paths =
                        IF parent_names # <<>> \/ name # <<>>
                        THEN @ \cup {[path |-> parent_names \o <<name>>,
                                      kind |-> kind]}
                        ELSE @]
            ELSE [st1 EXCEPT
                    !.already_same_nodes = @ + 1,
                    !.already_one_ident_names =
                        IF a.is_exception = 1 /\ name # <<>>
                        THEN @ \cup {name} ELSE @,
                    !.already_zero_ident_names =
                        IF a.is_exception = 0 /\ name # <<>>
                        THEN @ \cup {name} ELSE @]
    IN  [st2 EXCEPT
            !.matched_by = @ \cup {<<i, k>>},
            !.ast[i].no_inherit = IF a.lock_children THEN TRUE ELSE @]

RECURSIVE apply_targets(_, _, _, _, _)
apply_targets(st, i, k, parent_names, a) ==
    IF k > Len(a.parsed_targets) THEN st
    ELSE LET t == a.parsed_targets[k]
             cur == st.ast[i]
         IN  IF target_matches(t, parent_names, Strip(cur.A_name),
                               StrLower(Strip(cur.B_kind)), a.allowed_kinds)
             THEN apply_targets(apply_target(st, i, k, parent_names, a),
                                i, k + 1, parent_names, a)
             ELSE apply_targets(st, i, k + 1, parent_names, a)

\* _walk(node, parent_stack) and the loop over a list of children
RECURSIVE walk(_, _, _, _)
RECURSIVE walk_all(_, _, _, _)
walk(st, i, parent_stack, a) ==
    LET name == Strip(st.ast[i].A_name)
        st1 == apply_targets([st EXCEPT !.visited = @ \cup {i}],
                             i, 1, parent_stack, a)
        matched_here == \E m \in st1.matched_by : m[1] = i
    IN  IF descends(a.lock_children, matched_here)
        THEN walk_all(st1, ContainerChildren(st1.ast, i),
                      parent_stack \o (IF name # <<>> THEN <<name>> ELSE <<>>),
                      a)
        ELSE st1

walk_all(st, children, parent_stack, a) ==
    IF children = <<>> THEN st
    ELSE walk_all(walk(st, Head(children), parent_stack, a),
                  Tail(children), parent_stack, a)

\* pass_compute counting every matched node once
pass_compute_per_node(nodes, a) ==
    LET pa == [parsed_targets |-> parsed_targets_of(a.identifiers_to_update),
               is_exception |-> a.is_exception,
               allowed_kinds |->
                   {StrLower(Strip(k)) :
                       k \in {x \in a.allowed_kinds : Strip(x) # <<>>}},
               lock_children |-> a.lock_children,
               only_when_explicit_zero |-> a.only_when_explicit_zero]
        st == walk_all(InitialCounters(nodes), ContainerChildren(nodes, 0),
                       <<>>, pa)
    IN  [ran |-> TRUE,
         updated_nodes |-> st.updated_nodes,
         already_same_nodes |->
             Cardinality({m[1] : m \in st.matched_by}) - st.updated_nodes,
         matched_ident_names |-> st.matched_ident_names,
         missing_ident_names |->
             missing_names(pa.parsed_targets, st.matched_ident_names),
         changed_ident_names |-> st.changed_ident_names,
         updated_paths |-> st.updated_paths,
         visited |-> st.visited,
         matched_by |-> st.matched_by,
         mem |-> st.ast]

\* The traversal of a call (lines 828-959) over the tree held in memory,
\* a being the arguments identifiers_to_update, is_exception, allowed_kinds,
\* lock_children and only_when_explicit_zero.
pass_compute(nodes, a) ==
    LET pa == [parsed_targets |-> parsed_targets_of(a.identifiers_to_update),
               is_exception |-> a.is_exception,
               allowed_kinds |->
                   {StrLower(Strip(k)) :
                       k \in {x \in a.allowed_kinds : Strip(x) # <<>>}},
               lock_children |-> a.lock_children,
               only_when_explicit_zero |-> a.only_when_explicit_zero]
        st == walk_all(InitialCounters(nodes), ContainerChildren(nodes, 0),
                       <<>>, pa)
    IN  [ran |-> TRUE,
         updated_nodes |-> st.updated_nodes,
         already_same_nodes |-> st.already_same_nodes,
         matched_ident_names |-> st.matched_ident_names,
         missing_ident_names |->
             missing_names(pa.parsed_targets, st.matched_ident_names),
         changed_ident_names |-> st.changed_ident_names,
         updated_paths |-> st.updated_paths,
         visited |-> st.visited,
         matched_by |-> st.matched_by,
         mem |-> st.ast]

\* a call that stops before the traversal: the document is not a list
\* (line 798) or cannot be read (caught at line 1006)
pass_not_run(file) ==
    [ran |-> FALSE, updated_nodes |-> 0, already_same_nodes |-> 0,
     matched_ident_names |-> {}, missing_ident_names |-> {},
     changed_ident_names |-> {}, updated_paths |-> {},
     visited |-> {}, matched_by |-> {}, mem |-> file.nodes]

\* writes_back whatever the count
writes_back_always(updated_nodes) == TRUE

\* writes_back off by one
writes_back_more(updated_nodes) == updated_nodes > 1

\* line 962: the document is written back when some node value changed
writes_back(updated_nodes) == updated_nodes > 0

\* how the write-back of lines 963-964 can end: the document is written;
\* open(..., 'w') raises and the file is as before; or open has emptied the
\* file and json.dump raises, which leaves a document that does not parse
WriteOutcomes == {"ok", "not_opened", "torn"}

\* the state of the file after a write-back that ended as wr
written_file(file, mem, wr) ==
    CASE wr = "ok" -> [status |-> "list", nodes |-> mem]
      [] wr = "torn" -> [status |-> "unparsable", nodes |-> <<>>]
      [] OTHER -> file

\* the stored document changing with the traversal, node by node
pass_finish_inplace(file, c, wr) ==
    c @@
    [file |-> IF c.ran THEN [status |-> "list", nodes |-> c.mem] ELSE file,
     failed |-> \/ file.status \in {"missing", "unparsable"}
                \/ c.ran /\ writes_back(c.updated_nodes) /\ wr # "ok"]

\* lines 961-964 and 1006-1008: the write-back and the caught exception.
\* c is the traversal's result, wr how open(..., 'w') and json.dump end.
\* The result adds the stored document after the call and whether the call
\* ended in its exception handler.
pass_finish(file, c, wr) ==
    c @@
    [file |-> IF c.ran /\ writes_back(c.updated_nodes)
              THEN written_file(file, c.mem, wr) ELSE file,
     failed |-> \/ file.status \in {"missing", "unparsable"}
                \/ c.ran /\ writes_back(c.updated_nodes) /\ wr # "ok"]

\* The whole call of _update_ast_node_exceptions on the stored document.
update_ast_node_exceptions(file, a, wr) ==
    pass_finish(file,
                IF file.status = "list" THEN pass_compute(file.nodes, a)
                ELSE pass_not_run(file),
                wr)

\* ------------------------------------------------------------------------
\* State
\* ------------------------------------------------------------------------
VARIABLES
    astFile,    \* the stored tree document (ast_node.json)
    args,       \* the arguments of the Matcher/Updater calls of a pass run
    passNo,     \* how many calls of the pass run have returned
    report,     \* what the last call computed and printed
    before,     \* the stored document when the last call started
    pc,         \* the position of the preflight run in its code
    entry,      \* which conflict check runs: loader.py's or conflicts.py's
    config,     \* the configuration and the project of the preflight run
    provider,   \* whether PROMPT_PROVIDER is installed (obfuscate_cmd.py:184)
    ex_names,   \* the names the tree protects (isException 1)
    conflicts,  \* config_names & ex_names
    exclude_candidates,
    todo,       \* the exclude candidates not asked about yet, sorted
    decided_to_exclude,
    events,     \* what the run did that is seen outside: prompts, audit
                \* records, tree updates, in order
    outcome,    \* "running", "returned" or "aborted" (exit status 1)
    astStart,   \* the stored document when the preflight run started
    firstRun,   \* what an earlier run on the same project did and left
    parsed_targets, \* the parsed rule strings of a parser run (line 828)
    proc_out,   \* the lines the child has written that _reader has not read
    proc_closed,\* whether the child has closed its output
    written,    \* how many lines the child has written
    line_queue, \* queue.Queue of the lines and the sentinel None
    reader_pc,  \* the position of the thread _reader
    main_pc,    \* the position of the main loop of handle_obfuscate
    eof,        \* the main loop has seen the sentinel
    done_ast,   \* a line about the AST has been seen
    tail1,      \* deque(maxlen=10) of the last lines shown
    sp_idx,     \* the position of the spinner
    enqueued,   \* every item put into line_queue, in order
    dequeued    \* every item the main loop got from line_queue, in order

passVars == <<astFile, args, passNo, report, before>>
runVars == <<pc, entry, config, provider, ex_names, conflicts,
             exclude_candidates, todo, decided_to_exclude, events, outcome>>
histVars == <<astStart, firstRun, parsed_targets>>
monVars == <<proc_out, proc_closed, written, line_queue, reader_pc, main_pc,
             eof, done_ast, tail1, sp_idx, enqueued, dequeued>>
vars == <<passVars, runVars, histVars, monVars>>

\* no preprocessing stage is running
MonitorIdle ==
    /\ proc_out = <<>> /\ proc_closed = FALSE /\ written = 0
    /\ line_queue = <<>> /\ reader_pc = "idle" /\ main_pc = "idle"
    /\ eof = FALSE /\ done_ast = FALSE /\ tail1 = <<>> /\ sp_idx = 0
    /\ enqueued = <<>> /\ dequeued = <<>>

\* ------------------------------------------------------------------------
\* Bounded inputs of a pass run
\* ------------------------------------------------------------------------
NameSeq == <<Outer, inner, NoName>>
KindSeq == <<KFunction, KClass>>
ExSeq == <<Absent, 0, 1>>
NameSet == {NameSeq[i] : i \in 1..Len(NameSeq)}
KindSet == {KindSeq[i] : i \in 1..Len(KindSeq)}
ExSet == {ExSeq[i] : i \in 1..Len(ExSeq)}
PassViaSet == {"cur", "other"}

\* the trees of one and two nodes: every name, kind and flag on every node,
\* and a child under every sort of key
SmallTrees ==
    {<<Node(n1, k1, e1, 0, "cur")>> : n1 \in NameSet, k1 \in KindSet, e1 \in ExSet}
    \cup
    { <<Node(n1, k1, e1, 0, "cur"), Node(n2, k2, e2, p, v)>> :
        n1 \in NameSet, k1 \in KindSet, e1 \in ExSet,
        n2 \in NameSet, k2 \in KindSet, e2 \in ExSet,
        p \in (IF MaxNodes >= 2 THEN {1} ELSE {}), v \in PassViaSet }
    \cup
    { <<Node(n1, k1, e1, 0, "cur"), Node(n2, k2, e2, p, "cur")>> :
        n1 \in NameSet, k1 \in KindSet, e1 \in ExSet,
        n2 \in NameSet, k2 \in KindSet, e2 \in ExSet,
        p \in (IF MaxNodes >= 2 THEN {0} ELSE {}) }

\* the ancestors of node i and i itself, with 0 for the top-level list
RECURSIVE AncestorsOrSelf(_, _)
AncestorsOrSelf(ast, i) ==
    IF i = 0 THEN {0} ELSE {i} \cup AncestorsOrSelf(ast, ast[i].parent)

\* the parent vectors of the trees of n >= 3 nodes under one first
\* top-level node, in document order: a node hangs under the previous node
\* or one of its ancestors
RECURSIVE ParentVectors(_)
ParentVectors(n) ==
    IF n = 2 THEN {<<0, 1>>}
    ELSE {Append(pv, p) : pv \in ParentVectors(n - 1), p \in 0..(n - 1)}

ShapeInOrder(pv) ==
    LET t == [i \in 1..Len(pv) |-> [parent |-> pv[i]]]
    IN  \A i \in 3..Len(pv) : pv[i] \in AncestorsOrSelf(t, i - 1)

\* the kinds and flags of the larger trees follow patterns: node i takes
\* the kind KindPatterns[k][i] and the flag ExSeq[(i + r) % 3 + 1]
KindPatterns == {[i \in 1..MaxNodes |-> KFunction], [i \in 1..MaxNodes |-> KClass], [i \in 1..MaxNodes |-> KindSeq[(i % 2) + 1]], [i \in 1..MaxNodes |-> KindSeq[((i + 1) % 2) + 1]]}

LargeTrees ==
    IF MaxNodes < 3 THEN {}
    ELSE { [i \in 1..MaxNodes |->
              Node(nv[i], kp[i], ExSeq[((i + r) % Len(ExSeq)) + 1], pv[i], "cur")] :
           nv \in [1..MaxNodes -> NameSet], kp \in KindPatterns,
           r \in 0..(Len(ExSeq) - 1),
           pv \in {q \in ParentVectors(MaxNodes) : ShapeInOrder(q)} }

Trees == SmallTrees \cup LargeTrees

Rule(parent, leaf) == parent \o <<".">> \o leaf
Hint(kind, rest) == kind \o <<":">> \o rest

RuleLists ==
    { <<Rule(Outer, inner)>>, <<Outer, inner>>,
      <<Rule(Outer, inner), Rule(inner, inner)>>,
      <<Hint(KFunction, inner), Outer>> }

\* the arguments (is_exception, allowed_kinds, lock_children,
\* only_when_explicit_zero) of the call sites, of the function's defaults
\* and with every option set
Flags(ie, ak, lc, oz) ==
    [is_exception |-> ie, allowed_kinds |-> ak, lock_children |-> lc,
     only_when_explicit_zero |-> oz]

AnalyzerFlags == Flags(1, {}, FALSE, TRUE)
\* the force update without its kind allow-list
ForceFlags_anykind == Flags(0, {}, TRUE, FALSE)

\* conflicts.py:176-180 / loader.py:1226: the arguments of the conflict update
ForceFlags == Flags(0, {KFunction}, TRUE, FALSE)
\* the exclude update behind the explicit-zero gate
ExcludeFlags_gated == Flags(1, {}, FALSE, TRUE)
\* the exclude update with target 0
ExcludeFlags_lower == Flags(0, {}, FALSE, FALSE)

\* line 1749: the arguments of the exclude update
ExcludeFlags == Flags(1, {}, FALSE, FALSE)
ApplyConfigFlags == Flags(1, {}, TRUE, FALSE)
\* loader.py:78-86: the arguments _apply_config_exclusions_to_ast passes
LoaderApplyConfigFlags == Flags(1, {}, FALSE, TRUE)
DefaultFlags == Flags(0, {}, TRUE, FALSE)
AllOnFlags == Flags(1, {KFunction}, TRUE, TRUE)
LowerUnlockedFlags == Flags(0, {}, FALSE, FALSE)

FlagCombos ==
    {AnalyzerFlags, ForceFlags, ExcludeFlags, ApplyConfigFlags, DefaultFlags,
     AllOnFlags, LowerUnlockedFlags}

PassArgs ==
    {[identifiers_to_update |-> l] @@ f : l \in RuleLists, f \in FlagCombos}

\* there was no earlier run
NoFirstRun ==
    [done |-> FALSE, events |-> <<>>,
     file |-> [status |-> "missing", nodes |-> <<>>]]

\* no call has returned yet
NoReport == pass_finish([status |-> "list", nodes |-> <<>>], pass_not_run([status |-> "list", nodes |-> <<>>]), "ok")

\* ------------------------------------------------------------------------
\* A pass run: the same call of the Matcher/Updater, MaxPasses times
\* ------------------------------------------------------------------------
InitPass ==
    /\ astFile \in {[status |-> "list", nodes |-> t] : t \in Trees}
    /\ args \in PassArgs
    /\ passNo = 0
    /\ report = NoReport
    /\ before = astFile
    /\ pc = "idle" /\ entry = "none" /\ provider = FALSE
    /\ config = [include |-> <<>>, exclude |-> <<>>, policy |-> <<>>,
                 project_identifiers |-> {}]
    /\ ex_names = {} /\ conflicts = {} /\ exclude_candidates = {}
    /\ todo = <<>> /\ decided_to_exclude = {} /\ events = <<>>
    /\ outcome = "idle"
    /\ astStart = astFile /\ firstRun = NoFirstRun /\ parsed_targets = <<>>
    /\ MonitorIdle

RunPass ==
    /\ passNo < MaxPasses
    /\ LET c == IF astFile.status = "list"
                 THEN pass_compute(astFile.nodes, args)
                 ELSE pass_not_run(astFile)
       IN  \E wr \in WriteOutcomes :
             LET r == pass_finish(astFile, c, wr) IN
             /\ astFile' = r.file
             /\ report' = r
    /\ before' = astFile
    /\ passNo' = passNo + 1
    /\ UNCHANGED <<args, runVars>>
    /\ UNCHANGED <<histVars, monVars>>

NextPass == RunPass

SpecPass == InitPass /\ [][NextPass]_vars

\* ------------------------------------------------------------------------
\* A parser run: one rule string, parsed as line 828 does
\* ------------------------------------------------------------------------
MaxRuleLen == 5
RuleAlphabet == {"a", "B", ".", ":", " "}
RuleStrings == UNION {[1..n -> RuleAlphabet] : n \in 0..MaxRuleLen}

InitParse ==
    /\ astFile = [status |-> "list", nodes |-> <<>>]
    /\ args \in {[identifiers_to_update |-> <<r>>] @@ DefaultFlags : r \in RuleStrings}
    /\ passNo = 0
    /\ report = NoReport
    /\ before = astFile
    /\ pc = "idle" /\ entry = "none" /\ provider = FALSE
    /\ config = [include |-> <<>>, exclude |-> <<>>, policy |-> <<>>,
                 project_identifiers |-> {}]
    /\ ex_names = {} /\ conflicts = {} /\ exclude_candidates = {}
    /\ todo = <<>> /\ decided_to_exclude = {} /\ events = <<>>
    /\ outcome = "idle"
    /\ astStart = astFile /\ firstRun = NoFirstRun /\ parsed_targets = <<>>
    /\ MonitorIdle

ParseTargets ==
    /\ passNo = 0
    /\ parsed_targets' = parsed_targets_of(args.identifiers_to_update)
    /\ passNo' = 1
    /\ UNCHANGED <<astFile, args, report, before, runVars, astStart, firstRun,
                   monVars>>

NextParse == ParseTargets

SpecParse == InitParse /\ [][NextParse]_vars

\* ------------------------------------------------------------------------
\* The conflict computation and the candidate discovery
\* ------------------------------------------------------------------------
Foo == <<"F","o","o">>
Barista == <<"B","a","r","i","s","t","a">>
Qux == <<"Q","u","x">>
Quux == <<"Q","u","u","x">>
foo == <<"f","o","o">>
BarStar == <<"B","a","r","*">>
BaQista == <<"B","a","?","i","s","t","a">>
QStar == <<"Q","*">>
Star == <<"*">>
FooPadded == <<" ">> \o Foo \o <<" ">>

\* sorted(): the identifiers of the bounded inputs in code-point order
\* for large conflict sets: MaxMany two-letter names Na, Nb, ...
MaxMany == 22
ManyLetters ==
    <<"a","b","c","d","e","f","g","h","i","j","k","l","m","n","o","p","q",
      "r","s","t","u","v","w","x","y","z">>
ManyName(i) == <<"N", ManyLetters[i]>>
NStar == <<"N", "*">>
NameOrder ==
    <<Barista, Foo>> \o [i \in 1..MaxMany |-> ManyName(i)] \o <<Quux, Qux, foo>>
Sorted(names) == SelectSeq(NameOrder, LAMBDA n : n \in names)

\* fnmatch.fnmatchcase(name, pat) for patterns of literal characters, * and ?
RECURSIVE fnmatchcase(_, _)
fnmatchcase(name, pat) ==
    IF pat = <<>> THEN name = <<>>
    ELSE IF Head(pat) = "*"
         THEN \/ fnmatchcase(name, Tail(pat))
              \/ name # <<>> /\ fnmatchcase(Tail(name), pat)
    ELSE IF name = <<>> THEN FALSE
    ELSE /\ Head(pat) = "?" \/ Head(pat) = Head(name)
         /\ fnmatchcase(Tail(name), Tail(pat))

\* "*" in item or "?" in item
has_wildcard(item) == \E i \in 1..Len(item) : item[i] \in {"*", "?"}

\* _collect_ex_names_rec: the trimmed names of the nodes with isException 1;
\* the walk reaches every node, under whatever key it hangs
ex_names_of(nodes) ==
    {Strip(nodes[i].A_name) :
        i \in {j \in 1..Len(nodes) :
                 Strip(nodes[j].A_name) # <<>> /\ nodes[j].isException = 1}}

\* the names an item list selects from a set of known names: a pattern
\* selects the known names it matches, a literal item itself (only when it
\* is known, if known_only)
expand_items(items, known, known_only) ==
    UNION { LET item == Strip(items[i]) IN
            IF item = <<>> THEN {}
            ELSE IF ~has_wildcard(item)
                 THEN (IF known_only /\ item \notin known THEN {} ELSE {item})
                 ELSE {n \in known : fnmatchcase(n, item)}
          : i \in 1..Len(items) }

\* config_names with the include entries lower-cased before the lookup
config_names_lower(include, names) ==
    expand_items([i \in 1..Len(include) |-> StrLower(include[i])], names, FALSE)

\* config_names: literal include entries as they are, patterns expanded
\* against ex_names
config_names_of(include, names) == expand_items(include, names, FALSE)

\* conflicts = config_names & ex_names
conflicts_of(include, names) == config_names_of(include, names) \cap names

\* exclude_candidates: the exclude entries found among the project's
\* identifiers
exclude_candidates_of(exclude, project_identifiers) ==
    expand_items(exclude, project_identifiers, TRUE)

\* an entry "*" alone in include.obfuscation or exclude.obfuscation
bare_wildcard(cfg) ==
    \E i \in 1..Len(cfg.include \o cfg.exclude) :
        Strip((cfg.include \o cfg.exclude)[i]) = Star

\* preflight.conflict_policy, trimmed and lower-cased, "ask" by default;
\* loader.py's check knows no policy and always asks
KAsk == <<"a","s","k">>
KForce == <<"f","o","r","c","e">>
KSkip == <<"s","k","i","p">>
policy_of(how, cfg) ==
    IF how = "loader" THEN KAsk
    ELSE StrLower(Strip(IF cfg.policy = <<>> THEN KAsk ELSE cfg.policy))

\* ------------------------------------------------------------------------
\* Confirmations
\* ------------------------------------------------------------------------
\* What the confirmation channel delivers: a line, end of input, or an
\* interruption.
Line(text) == [kind |-> "line", text |-> text]
Inputs ==
    {Line(<<"y">>), Line(<<" ","Y","E","S"," ">>), Line(<<"n">>), Line(<<>>),
     [kind |-> "eof", text |-> <<>>], [kind |-> "interrupt", text |-> <<>>]}

\* The answer a prompt gets.  input() raises EOFError at end of input and
\* KeyboardInterrupt on interruption; the provider _ui_prompt_line catches
\* Exception around input() and returns "", which lets KeyboardInterrupt
\* through.
read_answer(with_provider, inp) ==
    IF inp.kind = "line" THEN [raised |-> FALSE, ans |-> inp.text]
    ELSE IF inp.kind = "eof" /\ with_provider
         THEN [raised |-> FALSE, ans |-> <<>>]
    ELSE [raised |-> TRUE, ans |-> <<>>]

\* ans.strip().lower() in ("y", "yes")
is_yes(ans) == StrLower(Strip(ans)) \in {<<"y">>, <<"y","e","s">>}

\* the reply the run acts on
reply_of(r) == IF r.raised THEN "raised" ELSE IF is_yes(r.ans) THEN "yes" ELSE "no"

Prompt(about, names, inp, r) ==
    [ev |-> "prompt", about |-> about, names |-> names, input |-> inp.kind,
     reply |-> reply_of(r), saved |-> FALSE]
\* Audit with the pending record cut down to the first candidate
Audit_sample(kind, names, saved) ==
    [ev |-> kind, about |-> "exclude",
     names |-> IF kind = "pending" /\ names # {}
               THEN {Head(Sorted(names))} ELSE names,
     input |-> "none", reply |-> "none", saved |-> saved]

\* an audit record (exclude_pending / exclude_review) and whether its save
\* succeeded
Audit(kind, names, saved) ==
    [ev |-> kind, about |-> "exclude", names |-> names, input |-> "none",
     reply |-> "none", saved |-> saved]
\* sorted(conflicts)[:n]
Take(s, n) == SubSeq(s, 1, IF Len(s) < n THEN Len(s) ELSE n)

\* the feedback sample cut like the sample of the printed warning
feedback_sample_ten(names) == Take(Sorted(names), 10)

\* line 187: the names the feedback text lists
SampleLimit == 20
feedback_sample(names) == Take(Sorted(names), SampleLimit)

\* lines 183-189: the feedback text "include_conflict_skipped" (the count,
\* the sample, the policy) and whether writing it succeeded
Feedback(names, policy, saved) ==
    [ev |-> "feedback", about |-> "conflicts",
     names |-> {feedback_sample(names)[i] : i \in 1..Len(feedback_sample(names))},
     count |-> Cardinality(names), policy |-> policy,
     input |-> "none", reply |-> "none", saved |-> saved]

\* a call of the updater and whether it came back without a swallowed
\* exception
Updated(about, names, r) ==
    [ev |-> "update", about |-> about, names |-> names, input |-> "none",
     reply |-> "none", saved |-> ~r.failed]

Did(what, about, names) ==
    [ev |-> what, about |-> about, names |-> names, input |-> "none",
     reply |-> "none", saved |-> FALSE]

\* ------------------------------------------------------------------------
\* The preflight run
\* ------------------------------------------------------------------------
\* the trees of a preflight run: three nodes Foo, Barista, Qux; Foo is a
\* function beside Barista or a class around it
RunTrees ==
    { <<Node(Foo, sh[1], e1, 0, "cur"), Node(Barista, KFunction, e2, sh[2], "cur"),
        Node(Qux, KFunction, e3, 0, "cur")>> :
        sh \in {<<KFunction, 0>>, <<KClass, 1>>},
        e1 \in ExSet, e2 \in {0, 1}, e3 \in {Absent, 1} }

IncludeLists ==
    {<<Foo, BarStar>>, <<BarStar>>, <<FooPadded>>, <<foo>>, <<Star>>,
     <<BaQista, Qux>>, <<>>}
ExcludeLists == {<<>>, <<Qux>>, <<QStar>>}
PolicySet == {<<>>, KForce, <<"S","k","i","p"," ">>, KAsk}
ProjectIdentifiers == {Foo, Qux, Quux}

RunConfigs ==
    {[include |-> i, exclude |-> e, policy |-> <<>>,
      project_identifiers |-> ProjectIdentifiers] :
        i \in IncludeLists, e \in ExcludeLists}
    \cup
    {[include |-> i, exclude |-> <<Qux>>, policy |-> <<>>,
      project_identifiers |-> {}] : i \in IncludeLists}
    \cup
    {[include |-> <<Foo, BarStar>>, exclude |-> e, policy |-> po,
      project_identifiers |-> ProjectIdentifiers] :
        e \in {<<Qux>>, <<QStar>>}, po \in {KForce, KSkip}}

\* the stored documents a preflight run can find: a tree, no file, a file
\* that does not parse, and a document whose top level is no sequence (an
\* object holding the nodes, or a scalar)
OtherDocuments ==
    {[status |-> "missing", nodes |-> <<>>],
     [status |-> "unparsable", nodes |-> <<>>],
     [status |-> "notlist", nodes |-> <<>>],
     [status |-> "notlist",
      nodes |-> <<Node(Foo, KFunction, 1, 0, "cur"),
                  Node(Barista, KFunction, 1, 0, "cur"),
                  Node(Qux, KFunction, Absent, 0, "cur")>>]}
RunDocuments ==
    {[status |-> "list", nodes |-> t] : t \in RunTrees} \cup OtherDocuments

InitRun ==
    /\ astFile \in RunDocuments
    /\ args = [identifiers_to_update |-> <<>>] @@ DefaultFlags
    /\ passNo = 0
    /\ report = NoReport
    /\ before = astFile
    /\ pc = "start"
    /\ entry \in {"loader", "conflicts"}
    /\ \/ entry = "loader" /\ config \in RunConfigs
       \/ /\ entry = "conflicts"
          /\ config \in {[include |-> i, exclude |-> <<>>, policy |-> po,
                          project_identifiers |-> {}] :
                            i \in IncludeLists, po \in PolicySet}
    /\ provider \in BOOLEAN
    /\ ex_names = {} /\ conflicts = {} /\ exclude_candidates = {}
    /\ todo = <<>> /\ decided_to_exclude = {} /\ events = <<>>
    /\ outcome = "running"
    /\ astStart = astFile /\ firstRun = NoFirstRun /\ parsed_targets = <<>>
    /\ MonitorIdle

\* the function returns to its caller
Return ==
    /\ pc' = "done"
    /\ outcome' = "returned"

\* sys.exit(1) / raise SystemExit(1)
Exit1 ==
    /\ pc' = "done"
    /\ outcome' = "aborted"

\* a call that works on the document as it was when the run started
CallUpdate_stale(ids, flags) ==
    \E wr \in WriteOutcomes :
        LET a == [identifiers_to_update |-> ids] @@ flags
            r == update_ast_node_exceptions(astStart, a, wr)
            changed == r.ran /\ r.updated_nodes > 0
        IN  /\ astFile' = IF changed THEN r.file ELSE astFile
            /\ report' = r
            /\ args' = a
            /\ before' = astFile
            /\ passNo' = passNo + 1

\* a call of _update_ast_node_exceptions on the stored document
CallUpdate(ids, flags) ==
    \E wr \in WriteOutcomes :
        LET a == [identifiers_to_update |-> ids] @@ flags
            r == update_ast_node_exceptions(astFile, a, wr)
        IN  /\ astFile' = r.file
            /\ report' = r
            /\ args' = a
            /\ before' = astFile
            /\ passNo' = passNo + 1

\* where the run goes once the conflicts are dealt with: loader.py goes on
\* to _check_exclude_sensitive_identifiers, conflicts.py returns ex_names
AfterConflicts ==
    IF entry = "loader"
    THEN pc' = "discover" /\ UNCHANGED outcome
    ELSE Return

\* load the tree and index the protected names: a missing file is
\* reported and the check skipped, a file that does not parse ends the
\* check without a message, and any other document is walked, a sequence
\* or not
LoadIndex ==
    /\ pc = "start"
    /\ CASE astFile.status = "missing" ->
                /\ events' = Append(events, Did("warning", "tree", {}))
                /\ Return /\ UNCHANGED ex_names
           [] astFile.status = "unparsable" ->
                Return /\ UNCHANGED <<ex_names, events>>
           [] OTHER ->
                /\ ex_names' = ex_names_of(astFile.nodes)
                /\ IF ex_names' = {} THEN Return
                   ELSE pc' = "wildcard" /\ UNCHANGED outcome
                /\ UNCHANGED events
    /\ UNCHANGED <<passVars, entry, config, provider, conflicts,
                   exclude_candidates, todo, decided_to_exclude>>
    /\ UNCHANGED <<histVars, monVars>>

\* the warning about a pattern "*" alone: go on only on yes
WildcardPrompt ==
    /\ pc = "wildcard"
    /\ IF ~bare_wildcard(config)
       THEN pc' = "conflicts" /\ UNCHANGED <<outcome, events>>
       ELSE \E inp \in Inputs :
              LET r == read_answer(provider, inp) IN
              /\ events' = Append(events, Prompt("wildcard", {Star}, inp, r))
              /\ IF reply_of(r) = "yes"
                 THEN pc' = "conflicts" /\ UNCHANGED outcome
                 ELSE Exit1
    /\ UNCHANGED <<passVars, entry, config, provider, ex_names, conflicts,
                   exclude_candidates, todo, decided_to_exclude>>
    /\ UNCHANGED <<histVars, monVars>>

\* config_names and conflicts
ComputeConflicts ==
    /\ pc = "conflicts"
    /\ conflicts' = conflicts_of(config.include, ex_names)
    /\ IF conflicts' # {}
       THEN pc' = "resolve" /\ UNCHANGED outcome
       ELSE AfterConflicts
    /\ UNCHANGED <<passVars, entry, config, provider, ex_names,
                   exclude_candidates, todo, decided_to_exclude, events>>
    /\ UNCHANGED <<histVars, monVars>>

\* policy force: lower the conflicting function nodes at once
ResolveForce ==
    /\ pc = "resolve"
    /\ policy_of(entry, config) = KForce
    /\ CallUpdate(Sorted(conflicts), ForceFlags)
    /\ events' = Append(events, Updated("conflicts", conflicts, report'))
    /\ AfterConflicts
    /\ UNCHANGED <<entry, config, provider, ex_names, conflicts,
                   exclude_candidates, todo, decided_to_exclude>>
    /\ UNCHANGED <<histVars, monVars>>

\* policy skip: leave the tree alone and write the feedback; a failure of
\* the write is swallowed
ResolveSkip ==
    /\ pc = "resolve"
    /\ policy_of(entry, config) = KSkip
    /\ \E save_ok \in BOOLEAN :
         events' = Append(events,
                     Feedback(conflicts, policy_of(entry, config), save_ok))
    /\ AfterConflicts
    /\ UNCHANGED <<passVars, entry, config, provider, ex_names, conflicts,
                   exclude_candidates, todo, decided_to_exclude>>
    /\ UNCHANGED <<histVars, monVars>>

\* any other policy: ask; yes lowers the conflicting function nodes, any
\* other answer prints that the removal was cancelled and goes on, an
\* EOFError or KeyboardInterrupt exits with status 1
ResolveAsk ==
    /\ pc = "resolve"
    /\ policy_of(entry, config) \notin {KForce, KSkip}
    /\ \E inp \in Inputs :
         LET r == read_answer(provider, inp) IN
         /\ CASE reply_of(r) = "raised" ->
                   /\ events' = Append(events, Prompt("conflicts", conflicts, inp, r))
                   /\ Exit1
                   /\ UNCHANGED passVars
              [] reply_of(r) = "yes" ->
                   /\ CallUpdate(Sorted(conflicts), ForceFlags)
                   /\ events' = Append(Append(events,
                                    Prompt("conflicts", conflicts, inp, r)),
                                    Updated("conflicts", conflicts, report'))
                   /\ AfterConflicts
              [] OTHER ->
                   /\ events' = Append(events, Prompt("conflicts", conflicts, inp, r))
                   /\ AfterConflicts
                   /\ UNCHANGED passVars
    /\ UNCHANGED <<entry, config, provider, ex_names, conflicts,
                   exclude_candidates, todo, decided_to_exclude>>
    /\ UNCHANGED <<histVars, monVars>>

\* every candidate approved without its answer being read
exclude_flag_forced(r) == TRUE

\* line 1658: exclude_flag = ans in ("y", "yes")
exclude_flag(r) == reply_of(r) = "yes"

\* the position after the candidate discovery without the pending save
after_discover_unsaved(candidates) ==
    IF candidates = {} THEN "done" ELSE "confirm"

\* the position after the candidate discovery
after_discover(candidates) ==
    IF candidates = {} THEN "done" ELSE "pending"

\* _check_exclude_sensitive_identifiers up to the candidates
Discover ==
    /\ pc = "discover"
    /\ IF config.project_identifiers = {}
       THEN Return /\ UNCHANGED <<exclude_candidates, todo, events>>
       ELSE /\ exclude_candidates' =
                  exclude_candidates_of(config.exclude, config.project_identifiers)
            /\ todo' = Sorted(exclude_candidates')
            /\ events' = Append(events, Did("discover", "exclude", exclude_candidates'))
            /\ pc' = after_discover(exclude_candidates')
            /\ outcome' = IF exclude_candidates' = {} THEN "returned" ELSE outcome
    /\ UNCHANGED <<passVars, entry, config, provider, ex_names, conflicts,
                   decided_to_exclude>>
    /\ UNCHANGED <<histVars, monVars>>

\* _save_exclude_pending_json: the full candidate set, before any y/n; a
\* failure of the save is swallowed
SavePending ==
    /\ pc = "pending"
    /\ \E save_ok \in BOOLEAN :
         events' = Append(events, Audit("pending", exclude_candidates, save_ok))
    /\ pc' = "confirm"
    /\ UNCHANGED <<passVars, entry, config, provider, ex_names, conflicts,
                   exclude_candidates, todo, decided_to_exclude, outcome>>
    /\ UNCHANGED <<histVars, monVars>>

\* one y/N question per candidate, in sorted order
ConfirmExclude ==
    /\ pc = "confirm"
    /\ todo # <<>>
    /\ \E inp \in Inputs :
         LET r == read_answer(provider, inp) IN
         /\ events' = Append(events, Prompt("exclude", {Head(todo)}, inp, r))
         /\ IF reply_of(r) = "raised"
            THEN Exit1 /\ UNCHANGED <<todo, decided_to_exclude>>
            ELSE /\ decided_to_exclude' =
                       IF exclude_flag(r)
                       THEN decided_to_exclude \cup {Head(todo)}
                       ELSE decided_to_exclude
                 /\ todo' = Tail(todo)
                 /\ pc' = IF todo' = <<>> THEN "review" ELSE "confirm"
                 /\ UNCHANGED outcome
    /\ UNCHANGED <<passVars, entry, config, provider, ex_names, conflicts,
                   exclude_candidates>>
    /\ UNCHANGED <<histVars, monVars>>

\* _save_exclude_review_json: the approved names, when there are any
SaveReview ==
    /\ pc = "review"
    /\ IF decided_to_exclude = {} THEN UNCHANGED events
       ELSE \E save_ok \in BOOLEAN :
              events' = Append(events, Audit("approved", decided_to_exclude, save_ok))
    /\ pc' = "apply"
    /\ UNCHANGED <<passVars, entry, config, provider, ex_names, conflicts,
                   exclude_candidates, todo, decided_to_exclude, outcome>>
    /\ UNCHANGED <<histVars, monVars>>

\* the approved names are raised in the tree
ApplyExclude ==
    /\ pc = "apply"
    /\ CallUpdate(Sorted(decided_to_exclude), ExcludeFlags)
    /\ events' = Append(events, Updated("exclude", decided_to_exclude, report'))
    /\ Return
    /\ UNCHANGED <<entry, config, provider, ex_names, conflicts,
                   exclude_candidates, todo, decided_to_exclude>>
    /\ UNCHANGED <<histVars, monVars>>

NextRun ==
    \/ LoadIndex
    \/ WildcardPrompt
    \/ ComputeConflicts
    \/ ResolveForce
    \/ ResolveSkip
    \/ ResolveAsk
    \/ Discover
    \/ SavePending
    \/ ConfirmExclude
    \/ SaveReview
    \/ ApplyExclude

SpecRun == InitRun /\ [][NextRun]_vars

\* ------------------------------------------------------------------------
\* The conflict check of conflicts.py alone, also on flat trees of MaxMany
\* functions of which the first k are protected
\* ------------------------------------------------------------------------
ManyTrees ==
    { [i \in 1..MaxMany |->
          Node(ManyName(i), KFunction, IF i <= k THEN 1 ELSE 0, 0, "cur")] :
        k \in 0..MaxMany }

InitSkip ==
    /\ astFile \in {[status |-> "list", nodes |-> t] : t \in ManyTrees \cup RunTrees}
    /\ args = [identifiers_to_update |-> <<>>] @@ DefaultFlags
    /\ passNo = 0
    /\ report = NoReport
    /\ before = astFile
    /\ pc = "start"
    /\ entry = "conflicts"
    /\ config \in {[include |-> i, exclude |-> <<>>, policy |-> po,
                     project_identifiers |-> {}] :
                       i \in IncludeLists \cup {<<NStar>>}, po \in PolicySet}
    /\ provider \in BOOLEAN
    /\ ex_names = {} /\ conflicts = {} /\ exclude_candidates = {}
    /\ todo = <<>> /\ decided_to_exclude = {} /\ events = <<>>
    /\ outcome = "running"
    /\ astStart = astFile /\ firstRun = NoFirstRun /\ parsed_targets = <<>>
    /\ MonitorIdle

NextSkip ==
    \/ LoadIndex
    \/ WildcardPrompt
    \/ ComputeConflicts
    \/ ResolveForce
    \/ ResolveSkip
    \/ ResolveAsk

SpecSkip == InitSkip /\ [][NextSkip]_vars

\* ------------------------------------------------------------------------
\* Two preflight runs in a row on the same project, with no failure of a
\* write of the tree: the second starts from the document the first left
\* and gets the answers the first got
\* ------------------------------------------------------------------------
\* Foo around Barista, each a function or a class, and Qux beside them
TwiceTrees ==
    { <<Node(Foo, k1, e1, 0, "cur"), Node(Barista, k2, e2, 1, "cur"),
        Node(Qux, KFunction, e3, 0, "cur")>> :
        k1 \in {KFunction, KClass}, k2 \in {KFunction, KClass},
        e1 \in {0, 1}, e2 \in {0, 1}, e3 \in {Absent, 1} }

TwiceIncludes == {<<Foo, BarStar>>, <<BarStar>>, <<BaQista, Qux>>}

InitTwice ==
    /\ astFile \in {[status |-> "list", nodes |-> t] : t \in TwiceTrees}
    /\ args = [identifiers_to_update |-> <<>>] @@ DefaultFlags
    /\ passNo = 0
    /\ report = NoReport
    /\ before = astFile
    /\ pc = "start"
    /\ entry \in {"loader", "conflicts"}
    /\ \/ /\ entry = "loader"
          /\ config \in {[include |-> i, exclude |-> e, policy |-> <<>>,
                          project_identifiers |-> ProjectIdentifiers] :
                            i \in TwiceIncludes, e \in {<<>>, <<Qux>>}}
       \/ /\ entry = "conflicts"
          /\ config \in {[include |-> i, exclude |-> <<>>, policy |-> po,
                          project_identifiers |-> {}] :
                            i \in TwiceIncludes, po \in {KForce, KSkip, KAsk}}
    /\ provider = TRUE
    /\ ex_names = {} /\ conflicts = {} /\ exclude_candidates = {}
    /\ todo = <<>> /\ decided_to_exclude = {} /\ events = <<>>
    /\ outcome = "running"
    /\ astStart = astFile /\ firstRun = NoFirstRun /\ parsed_targets = <<>>
    /\ MonitorIdle

\* the confirmations of the run are confirmations the first run got, with
\* the answers it got
FollowsFirst ==
    firstRun.done =>
        \A j \in 1..Len(events) :
            events[j].ev = "prompt" =>
                \E i \in 1..Len(firstRun.events) : firstRun.events[i] = events[j]

\* every call of the updater so far came back without a swallowed exception
AllWritten ==
    \A i \in 1..Len(events) : events[i].ev = "update" => events[i].saved

\* the first run has returned: the same check starts again on the stored
\* document with the same configuration
Restart ==
    /\ pc = "done" /\ outcome = "returned" /\ ~firstRun.done
    /\ firstRun' = [done |-> TRUE, events |-> events, file |-> astFile]
    /\ astStart' = astFile
    /\ args' = [identifiers_to_update |-> <<>>] @@ DefaultFlags
    /\ passNo' = 0
    /\ report' = NoReport
    /\ before' = astFile
    /\ pc' = "start"
    /\ ex_names' = {} /\ conflicts' = {} /\ exclude_candidates' = {}
    /\ todo' = <<>> /\ decided_to_exclude' = {} /\ events' = <<>>
    /\ outcome' = "running"
    /\ UNCHANGED <<astFile, entry, config, provider, parsed_targets, monVars>>

NextTwice ==
    \/ NextRun /\ FollowsFirst' /\ AllWritten'
    \/ Restart

SpecTwice == InitTwice /\ [][NextTwice]_vars

\* ------------------------------------------------------------------------
\* Properties of a pass, stated over the tree and not over the traversal
\* ------------------------------------------------------------------------
\* the proper ancestors of node i
ProperAncestors(ast, i) == AncestorsOrSelf(ast, ast[i].parent) \ {0}

\* the names of all proper ancestors of node i, outermost first, an
\* ancestor without a name giving <<>>
RECURSIVE AncestorNames(_, _)
AncestorNames(ast, i) ==
    IF ast[i].parent = 0 THEN <<>>
    ELSE AncestorNames(ast, ast[i].parent) \o <<ast[ast[i].parent].A_name>>

\* the names of the named proper ancestors of node i, outermost first
NamedAncestorNames(ast, i) ==
    SelectSeq(AncestorNames(ast, i), LAMBDA n : n # <<>>)

\* node i hangs under container keys all the way up to the top-level list
InContainers(ast, i) ==
    \A j \in AncestorsOrSelf(ast, i) \ {0} : ast[j].via \in {"cur", "wrapper"}

\* the parsed rule specs of the run, and the nodes the last call matched
PT == parsed_targets_of(args.identifiers_to_update)
MatchedNodes == {m[1] : m \in report.matched_by}
PassDone == passNo >= 1 /\ report.ran

\* rule k fits node i of the tree the last call started from
RuleFits(k, i) ==
    target_matches(PT[k], NamedAncestorNames(before.nodes, i),
                   before.nodes[i].A_name, before.nodes[i].B_kind,
                   args.allowed_kinds)

\* C1: in a pass with explicit-zero-only set and target 1, a matched node
\* whose isException is absent keeps it absent (in memory and in the
\* stored document), and a matched node whose isException is 0 gets 1 (in
\* memory, and in the stored document when the write-back succeeds).
C1_ExplicitZeroGating ==
    (PassDone /\ args.only_when_explicit_zero /\ args.is_exception = 1) =>
        \A i \in MatchedNodes :
            /\ before.nodes[i].isException = Absent =>
                  /\ report.mem[i].isException = Absent
                  /\ astFile.status = "list" => astFile.nodes[i].isException = Absent
            /\ before.nodes[i].isException = 0 =>
                  /\ report.mem[i].isException = 1
                  /\ ~report.failed => astFile.nodes[i].isException = 1

C1_Witness ==
    /\ astFile.status = "list"
    /\ PassDone /\ args.only_when_explicit_zero /\ args.is_exception = 1
    /\ \E i \in MatchedNodes :
          before.nodes[i].isException = Absent /\ astFile.nodes[i].isException = Absent
    /\ \E i \in MatchedNodes :
          before.nodes[i].isException = 0 /\ astFile.nodes[i].isException = 1

\* C2: when a call has returned without a failed write-back, the next call
\* with the same arguments on the stored document changes no node.
C2_Idempotence ==
    [][(passNo = 1 /\ report.ran /\ ~report.failed) => report'.updated_nodes = 0]_vars

\* a second call that changed nothing after a first call that wrote the
\* document back (only a written document carries no_inherit markers)
C2_Witness ==
    /\ passNo = 2 /\ report.ran /\ report.updated_nodes = 0
    /\ report.already_same_nodes > 0
    /\ \E i \in 1..Len(before.nodes) : before.nodes[i].no_inherit

\* C3: in a pass with lock_children, a node under a matched node is not
\* visited and keeps its isException, whatever its name; every other node
\* under container keys is visited, and is matched exactly when a rule
\* fits it.
C3_CascadePrevention ==
    (PassDone /\ args.lock_children) =>
        \A i \in 1..Len(before.nodes) :
            LET locked == ProperAncestors(before.nodes, i) \cap MatchedNodes # {}
            IN  /\ locked =>
                      /\ i \notin report.visited
                      /\ report.mem[i].isException = before.nodes[i].isException
                      /\ astFile.status = "list" =>
                            astFile.nodes[i].isException = before.nodes[i].isException
                /\ (~locked /\ InContainers(before.nodes, i)) =>
                      /\ i \in report.visited
                      /\ i \in MatchedNodes <=> \E k \in 1..Len(PT) : RuleFits(k, i)

\* a matched node with a child that a rule fits and that would change, and
\* a matched node in a sibling subtree
C3_Witness ==
    /\ astFile.status = "list"
    /\ PassDone /\ args.lock_children
    /\ \E i \in MatchedNodes, d \in 1..Len(before.nodes), j \in MatchedNodes :
          /\ before.nodes[d].parent = i
          /\ \E k \in 1..Len(PT) : RuleFits(k, d) /\ PT[k].leaf = before.nodes[d].A_name
          /\ before.nodes[d].isException = 1 - args.is_exception
          /\ astFile.nodes[d].isException = before.nodes[d].isException
          /\ j # i /\ before.nodes[j].parent = before.nodes[i].parent

\* a parent and a differently-named child under a container key that fit
\* two distinct rules
ParentAndChildFit(p, c) ==
    /\ before.nodes[c].parent = p
    /\ before.nodes[c].via \in {"cur", "wrapper"}
    /\ InContainers(before.nodes, p)
    /\ before.nodes[c].A_name # before.nodes[p].A_name
    /\ \E kp, kc \in 1..Len(PT) : kp # kc /\ RuleFits(kp, p) /\ RuleFits(kc, c)

\* the value line 882 reads from a node: a node without the key counts 0
prev_val_of(node) == IF node.isException = Absent THEN 0 ELSE node.isException

\* C4 as stated: in any pass, a parent and a differently-named child that
\* fit distinct rules both end with the target value.
C4_AsStated ==
    PassDone =>
        \A p, c \in 1..Len(before.nodes) :
            ParentAndChildFit(p, c) =>
                /\ prev_val_of(report.mem[p]) = args.is_exception
                /\ prev_val_of(report.mem[c]) = args.is_exception

\* C4 (amended): in a pass without lock_children and without the
\* explicit-zero gate, a parent and a differently-named child that fit
\* distinct rules are both matched and both end with the target value (a
\* node without the field counting as 0).
C4_IndependentUpdates ==
    (PassDone /\ ~args.lock_children /\ ~args.only_when_explicit_zero) =>
        \A p, c \in 1..Len(before.nodes) :
            ParentAndChildFit(p, c) =>
                /\ {p, c} \subseteq MatchedNodes
                /\ prev_val_of(report.mem[p]) = args.is_exception
                /\ prev_val_of(report.mem[c]) = args.is_exception
                /\ ~report.failed =>
                      /\ prev_val_of(astFile.nodes[p]) = args.is_exception
                      /\ prev_val_of(astFile.nodes[c]) = args.is_exception

C4_Witness ==
    /\ astFile.status = "list"
    /\ PassDone /\ ~args.lock_children /\ ~args.only_when_explicit_zero
    /\ \E p, c \in 1..Len(before.nodes) :
          /\ ParentAndChildFit(p, c)
          /\ before.nodes[p].isException # args.is_exception
          /\ before.nodes[c].isException # args.is_exception
          /\ astFile.nodes[p].isException = args.is_exception
          /\ astFile.nodes[c].isException = args.is_exception

\* the names the rules of the run ask for
RequestedLeafs == {PT[k].leaf : k \in 1..Len(PT)} \ {<<>>}

\* a pass with the arguments of policy force (conflicts.py:176-180)
ForcePass ==
    /\ PassDone
    /\ [f \in DOMAIN ForceFlags |-> args[f]] = ForceFlags

\* node i fits some rule of the run when the allow-list is left aside
FitsButKind(i) ==
    \E k \in 1..Len(PT) :
        target_matches(PT[k], NamedAncestorNames(before.nodes, i),
                       before.nodes[i].A_name, before.nodes[i].B_kind, {})

\* C6 as stated: under force a visited node of another kind than function
\* that fits a rule keeps its value, and is reported apart: it is not
\* matched (neither changed nor already matching) and its name is not
\* reported missing.
C6_AsStated ==
    ForcePass =>
        \A i \in report.visited :
            (FitsButKind(i) /\ before.nodes[i].B_kind # KFunction) =>
                /\ report.mem[i].isException = before.nodes[i].isException
                /\ i \notin MatchedNodes
                /\ before.nodes[i].A_name \notin report.missing_ident_names

\* C6 (amended): under force a node changes only if its kind is function;
\* a node of another kind is never matched, so it is counted neither as
\* changed nor as already matching, and its name is reported missing
\* exactly when no function node matched carries it.
C6_ForceOnlyCallable ==
    ForcePass =>
        /\ \A i \in 1..Len(before.nodes) :
              before.nodes[i].B_kind # KFunction =>
                  /\ report.mem[i].isException = before.nodes[i].isException
                  /\ astFile.status = "list" =>
                        astFile.nodes[i].isException = before.nodes[i].isException
                  /\ i \notin MatchedNodes
        /\ report.updated_nodes + report.already_same_nodes
              = Cardinality(report.matched_by)
        /\ \A n \in RequestedLeafs :
              n \in report.missing_ident_names <=>
                  ~\E i \in MatchedNodes :
                      before.nodes[i].A_name = n /\ before.nodes[i].B_kind = KFunction

\* a class node and a function node with requested names and isException
\* 1: the function is lowered, the class is not and its name is missing
C6_Witness ==
    /\ astFile.status = "list"
    /\ ForcePass
    /\ \E i, j \in report.visited :
          /\ before.nodes[i].B_kind = KClass /\ before.nodes[i].isException = 1
          /\ FitsButKind(i)
          /\ before.nodes[i].A_name \in report.missing_ident_names
          /\ astFile.nodes[i].isException = 1
          /\ before.nodes[j].B_kind = KFunction /\ before.nodes[j].isException = 1
          /\ before.nodes[j].A_name \in RequestedLeafs
          /\ astFile.nodes[j].isException = 0

\* C7 as stated: a rule with a parent path matches a node only when the
\* node's immediate ancestors carry exactly the names of the path.
C7_AsStated ==
    PassDone =>
        \A m \in report.matched_by :
            LET path == PT[m[2]].parent_path
                anc == AncestorNames(before.nodes, m[1])
            IN  path # <<>> =>
                    Len(anc) >= Len(path) /\ Suffix(anc, Len(path)) = path

\* C7 (amended): a rule with a parent path matches a node only when the
\* node's nearest named ancestors (ancestors without a name are skipped)
\* carry exactly the names of the path.
C7_PathScoped ==
    PassDone =>
        \A m \in report.matched_by :
            LET path == PT[m[2]].parent_path
                anc == NamedAncestorNames(before.nodes, m[1])
            IN  path # <<>> =>
                    Len(anc) >= Len(path) /\ Suffix(anc, Len(path)) = path

\* the rule Outer.inner matched inner under Outer below another node, and
\* left alone an inner whose nearest ancestor is not Outer
C7_Witness ==
    /\ PassDone
    /\ \E m \in report.matched_by, j \in report.visited :
          /\ PT[m[2]].parent_path = <<Outer>> /\ PT[m[2]].leaf = inner
          /\ Len(AncestorNames(before.nodes, m[1])) = 2
          /\ before.nodes[j].A_name = inner
          /\ ~\E m2 \in report.matched_by : m2[1] = j /\ m2[2] = m[2]

\* rule k matched no node in the last call
Unmatched(k) == ~\E m \in report.matched_by : m[2] = k

\* C8 as stated: a rule with a parent path that matched no node has its
\* leaf reported missing.
C8_AsStated ==
    PassDone =>
        \A k \in 1..Len(PT) :
            (PT[k].parent_path # <<>> /\ PT[k].leaf # <<>> /\ Unmatched(k)) =>
                PT[k].leaf \in report.missing_ident_names

\* C8 (amended): the leaf of a rule is reported missing exactly when no
\* node of that name was matched by any rule of the pass; a rule with a
\* parent path that matched no node is reported missing unless a node with
\* its leaf name was matched in another scope.
C8_MissingByName ==
    PassDone =>
        \A k \in 1..Len(PT) :
            PT[k].leaf # <<>> =>
                (PT[k].leaf \in report.missing_ident_names <=>
                    ~\E i \in MatchedNodes : before.nodes[i].A_name = PT[k].leaf)

\* Outer.inner matched nothing and inner is reported missing although the
\* tree holds a node inner
C8_Witness ==
    /\ PassDone
    /\ \E k \in 1..Len(PT), i \in report.visited :
          /\ PT[k].parent_path = <<Outer>> /\ PT[k].leaf = inner
          /\ Unmatched(k)
          /\ before.nodes[i].A_name = inner
          /\ inner \in report.missing_ident_names

\* ------------------------------------------------------------------------
\* Properties of a preflight run
\* ------------------------------------------------------------------------
\* the run is past the conflict computation and has not ended
ConflictsKnown ==
    pc \in {"resolve", "discover", "pending", "confirm", "review", "apply"}

\* name and pat have the same length and agree but where pat holds ?
CharsFit(name, pat) ==
    /\ Len(name) = Len(pat)
    /\ \A i \in 1..Len(pat) : pat[i] = "?" \/ pat[i] = name[i]

\* case-sensitive glob match, for a pattern with at most one *: what stands
\* before the * fits the start of the name, what stands after it the end
GlobFits(name, pat) ==
    LET st == IndexOf(pat, "*") IN
    IF st = 0 THEN CharsFit(name, pat)
    ELSE /\ Len(name) >= Len(pat) - 1
         /\ CharsFit(SubSeq(name, 1, st - 1), SubSeq(pat, 1, st - 1))
         /\ CharsFit(SubSeq(name, Len(name) - (Len(pat) - st) + 1, Len(name)),
                     SubSeq(pat, st + 1, Len(pat)))

\* C5: the conflict set holds exactly the protected names that a literal
\* include entry names as it is or that a wildcard include entry matches as
\* a case-sensitive glob; it is a subset of the protected names; for the
\* include rules Foo, Bar* and the protected names Foo, Barista, Qux it is
\* {Foo, Barista}.
C5_ConflictComputation ==
    ConflictsKnown =>
        /\ conflicts \subseteq ex_names
        /\ \A n \in ex_names :
              n \in conflicts <=>
                  \E i \in 1..Len(config.include) :
                      LET item == Strip(config.include[i]) IN
                      /\ item # <<>>
                      /\ IF \E j \in 1..Len(item) : item[j] \in {"*", "?"}
                         THEN GlobFits(n, item)
                         ELSE item = n
        /\ (config.include = <<Foo, BarStar>> /\ ex_names = {Foo, Barista, Qux})
              => conflicts = {Foo, Barista}

C5_Witness ==
    /\ ConflictsKnown
    /\ config.include = <<Foo, BarStar>>
    /\ ex_names = {Foo, Barista, Qux}
    /\ conflicts = {Foo, Barista}

\* the prompt about the include conflicts, as event number i
ConflictPrompt(i) ==
    events[i].ev = "prompt" /\ events[i].about = "conflicts"

\* C9 as stated: when the confirmation about the conflicts is declined, or
\* the channel reports end of input or an interruption, the run is aborted
\* and nothing follows the prompt.
C9_AsStated ==
    \A i \in 1..Len(events) :
        (ConflictPrompt(i)
         /\ (events[i].reply = "no" \/ events[i].input \in {"eof", "interrupt"})) =>
            /\ i = Len(events)
            /\ pc = "done"
            /\ outcome = "aborted"

\* the prompt about an exclude candidate, as event number i
ExcludePrompt(i) ==
    events[i].ev = "prompt" /\ events[i].about = "exclude"

C12_AsStated ==
    /\ (passNo >= 1 /\ astFile # before) => ~report.failed
    /\ (pc = "done" /\ (outcome = "aborted" \/ report.failed)) =>
            astFile = astStart

\* C12 (amended): the stored document is written only at the end of a
\* call's traversal and only when a node changed.  Before the first call
\* of a run it is the document the run started with; after a call that
\* changed no node it is what the call started from; after a call that
\* changed nodes and did not fail it is the whole traversed tree; after a
\* call that failed it is what the call started from or a file that does
\* not parse.  A run aborts only at a prompt, and then the document stays
\* as the calls completed before the prompt left it.
C12_NoPartialWrites ==
    /\ passNo = 0 => astFile = astStart
    /\ passNo >= 1 =>
          /\ (~report.ran \/ report.updated_nodes = 0) => astFile = before
          /\ (report.ran /\ report.updated_nodes > 0 /\ ~report.failed) =>
                astFile = [status |-> "list", nodes |-> report.mem]
          /\ report.failed =>
                astFile = before \/ astFile.status = "unparsable"
    /\ (pc = "done" /\ outcome = "aborted") =>
          /\ events # <<>>
          /\ events[Len(events)].ev = "prompt"
          /\ events[Len(events)].reply # "yes"

\* a run aborted at a prompt after a call that wrote the document back
C12_Witness ==
    /\ pc = "done" /\ outcome = "aborted"
    /\ passNo = 1 /\ ~report.failed
    /\ astFile # astStart
    /\ astFile = [status |-> "list", nodes |-> report.mem]

\* the run has just reported that the approved names were applied to the
\* tree (the message printed after the call at line 1749)
ReportedApplied ==
    /\ pc = "done" /\ events # <<>>
    /\ events[Len(events)].ev = "update"
    /\ events[Len(events)].about = "exclude"

\* C13: a run in which a write-back of the tree failed ends aborted, and a
\* run never reports the approved names applied while the stored document
\* lacks the changes of that call.
C13_AsStated ==
    /\ (pc = "done" /\ passNo >= 1 /\ report.failed) => outcome = "aborted"
    /\ (ReportedApplied /\ report.updated_nodes > 0) =>
            astFile = [status |-> "list", nodes |-> report.mem]

\* the names the stored document protects now
ProtectedNow ==
    IF astFile.status \in {"list", "notlist"} THEN ex_names_of(astFile.nodes)
    ELSE {}

\* the run is between the candidate discovery and the final update: the
\* stored document is the one the discovery saw
AfterDiscovery == pc \in {"pending", "confirm", "review", "apply"}

\* C14: the exclude candidates are the project identifiers an exclude rule
\* matches that the tree does not protect already; no protected name is
\* put before the user; and the candidates are computed in every run of
\* the loader check that returns with project identifiers, whatever the
\* tree protects.
C14_AsStated ==
    /\ AfterDiscovery =>
          /\ exclude_candidates =
                exclude_candidates_of(config.exclude, config.project_identifiers)
                    \ ProtectedNow
          /\ \A i \in 1..Len(events) :
                (events[i].ev = "prompt" /\ events[i].about = "exclude") =>
                    events[i].names \cap ProtectedNow = {}
    /\ (pc = "done" /\ outcome = "returned" /\ entry = "loader"
            /\ config.project_identifiers # {}) =>
          \E i \in 1..Len(events) : events[i].ev = "discover"

\* the policy the configuration selects (strip, lower, default ask)
SelectedPolicy == policy_of("conflicts", config)

\* the exclude confirmations solicited so far, and those answered yes
ExcludePrompts ==
    {i \in 1..Len(events) : events[i].ev = "prompt" /\ events[i].about = "exclude"}
AskedNames == UNION {events[i].names : i \in ExcludePrompts}
ApprovedNames ==
    UNION {events[i].names : i \in {j \in ExcludePrompts : events[j].reply = "yes"}}

\* the run has every exclude decision: it is at the review save or the
\* final update
ExcludeDecided == pc \in {"review", "apply"}

SkipResolved ==
    /\ entry = "conflicts" /\ pc = "done"
    /\ SelectedPolicy = KSkip /\ conflicts # {}

\* the events that are feedback records
FeedbackEvents == {i \in 1..Len(events) : events[i].ev = "feedback"}

Malformed == astStart.status \in {"missing", "unparsable", "notlist"}

\* C17: a run that starts from a missing file, a file that does not
\* parse or a document whose top level is no sequence indexes no protected
\* name, finds no conflict, solicits no confirmation, changes nothing in
\* the stored document, is never aborted and, once over, has emitted a
\* warning.
C17_AsStated ==
    Malformed =>
        /\ ex_names = {} /\ conflicts = {}
        /\ \A i \in 1..Len(events) : events[i].ev # "prompt"
        /\ astFile = astStart
        /\ outcome # "aborted"
        /\ pc = "done" => \E i \in 1..Len(events) : events[i].ev = "warning"

\* the second of two runs has returned
SecondDone == firstRun.done /\ pc = "done" /\ outcome = "returned"

\* the protected names an include entry still selects in the document the
\* first run left
ConflictsLeft ==
    conflicts_of(config.include, ex_names_of(firstRun.file.nodes))

WildcardPrompts ==
    {i \in 1..Len(events) : events[i].ev = "prompt" /\ events[i].about = "wildcard"}

\* the events of the conflict policy: the confirmation, the update, the
\* feedback record
PolicyEvents ==
    {i \in 1..Len(events) :
        events[i].about = "conflicts"
        /\ events[i].ev \in {"prompt", "update", "feedback"}}

\* C19: a run on a tree document with a bare "*" in its include or exclude
\* list has surfaced the "*" when it is over, whatever the tree protects,
\* and has surfaced it before any event of the conflict policy.
C19_AsStated ==
    (bare_wildcard(config) /\ astStart.status = "list") =>
        /\ pc = "done" => WildcardPrompts # {}
        /\ \A i \in PolicyEvents : \E j \in WildcardPrompts : j < i

\* the rule string of a parser run, and the run being over
RuleString == args.identifiers_to_update[1]
ParseDone == passNo = 1 /\ Len(args.identifiers_to_update) = 1

\* segments joined with "."
RECURSIVE JoinDots(_)
JoinDots(segs) ==
    IF segs = <<>> THEN <<>>
    ELSE IF Len(segs) = 1 THEN segs[1]
    ELSE segs[1] \o <<".">> \o JoinDots(Tail(segs))

\* no blank and no upper-case letter in the string
PlainRule(r) == \A i \in 1..Len(r) : r[i] # " " /\ LowerChar(r[i]) = r[i]

\* the segments are free of "."
Dotless(segs) ==
    \A k \in 1..Len(segs) : \A i \in 1..Len(segs[k]) : segs[k][i] # "."

Lowered(i) ==
    /\ astFile.status = "list" /\ astFile'.status = "list"
    /\ astFile.nodes[i].isException = 1
    /\ astFile'.nodes[i].isException = 0

\* the step is the conflict resolution, under force or after a yes
ConflictResolutionStep ==
    /\ pc = "resolve" /\ conflicts # {}
    /\ \/ policy_of(entry, config) = KForce
       \/ \E j \in 1..Len(events') :
             /\ events'[j].ev = "prompt" /\ events'[j].about = "conflicts"
             /\ events'[j].reply = "yes"

\* C21: in every step of a run, a node whose isException goes from 1 to 0
\* is lowered by the conflict resolution (policy force, or ask answered
\* yes), is of kind function, and is lowered by a call with the callable
\* allow-list and lock_children.
C21_LoweringInvariant ==
    [][\A i \in 1..Len(astFile.nodes) :
          Lowered(i) =>
              /\ ConflictResolutionStep
              /\ StrLower(Strip(astFile.nodes[i].B_kind)) = KFunction
              /\ args'.lock_children /\ args'.is_exception = 0
              /\ args'.allowed_kinds = {KFunction}]_vars

\* a run that lowered a protected function and left a protected class
\* with a conflicting name as it was
C21_Witness ==
    /\ pc = "done" /\ astFile.status = "list" /\ astStart.status = "list"
    /\ \E i, j \in 1..Len(astFile.nodes) :
          /\ astStart.nodes[i].isException = 1 /\ astFile.nodes[i].isException = 0
          /\ astStart.nodes[j].B_kind = KClass /\ astStart.nodes[j].isException = 1
          /\ astStart.nodes[j].A_name \in conflicts
          /\ astFile.nodes[j].isException = 1

\* ------------------------------------------------------------------------
\* Raising by source
\* ------------------------------------------------------------------------
\* the options of the call whose report is held
ArgFlags ==
    Flags(args.is_exception, args.allowed_kinds, args.lock_children,
          args.only_when_explicit_zero)

\* every node the last call matched holds 1 in memory, and in the stored
\* document when the write-back succeeded
AllMatchedRaised ==
    \A i \in MatchedNodes :
        /\ report.mem[i].isException = 1
        /\ ~report.failed => astFile.nodes[i].isException = 1

C23_WriteBackOnlyOnChange ==
    (PassDone /\ report.updated_nodes = 0) => astFile = before

\* a call with the gate and lock_children that matched a node without
\* changing it: the marker is set in memory and not in the stored document
C23_Witness ==
    /\ astFile.status = "list"
    /\ PassDone /\ report.updated_nodes = 0 /\ report.already_same_nodes > 0
    /\ args.only_when_explicit_zero /\ args.lock_children
    /\ \E i \in MatchedNodes :
          /\ before.nodes[i].isException # 1
          /\ report.mem[i].no_inherit
          /\ ~astFile.nodes[i].no_inherit

\* ------------------------------------------------------------------------
\* Rules without a parent path
\* ------------------------------------------------------------------------
\* rule k has a leaf and no parent path, and fits node i
UnscopedFits(k, i) ==
    /\ PT[k].parent_path = <<>> /\ PT[k].leaf # <<>>
    /\ PT[k].leaf = before.nodes[i].A_name
    /\ (args.allowed_kinds = {} \/ before.nodes[i].B_kind \in args.allowed_kinds)
    /\ (PT[k].kind_hint = <<>> \/ PT[k].kind_hint = before.nodes[i].B_kind)

\* C24 as stated: after any pass, every node that a rule without parent
\* path fits by name and kind holds the target value.
C24_AsStated ==
    PassDone =>
        \A i \in 1..Len(before.nodes), k \in 1..Len(PT) :
            UnscopedFits(k, i) => prev_val_of(report.mem[i]) = args.is_exception

\* C24: a rule without parent path fits a node of its leaf name (and of
\* the allowed and hinted kind) at any depth and under any top-level
\* declaration. Such a node under container keys is matched unless
\* lock_children stopped the walk at a matched ancestor; in a pass without
\* lock_children and without the explicit-zero gate it holds the target
\* value afterwards (a node without the field counting as 0), in memory
\* and, unless the write-back failed, in the stored document.
C24_UnscopedRule ==
    PassDone =>
        \A i \in 1..Len(before.nodes), k \in 1..Len(PT) :
            (UnscopedFits(k, i) /\ InContainers(before.nodes, i)) =>
                /\ (~args.lock_children
                      \/ ProperAncestors(before.nodes, i) \cap MatchedNodes = {})
                      => i \in MatchedNodes
                /\ (~args.lock_children /\ ~args.only_when_explicit_zero) =>
                      /\ prev_val_of(report.mem[i]) = args.is_exception
                      /\ ~report.failed =>
                            prev_val_of(astFile.nodes[i]) = args.is_exception

\* one rule without parent path changed a nested node and a top-level node
\* of another top-level declaration
C24_Witness ==
    /\ astFile.status = "list" /\ PassDone
    /\ \E i, j \in 1..Len(before.nodes), k \in 1..Len(PT) :
          /\ UnscopedFits(k, i) /\ UnscopedFits(k, j)
          /\ before.nodes[i].parent # 0 /\ before.nodes[j].parent = 0
          /\ j \notin ProperAncestors(before.nodes, i)
          /\ before.nodes[i].isException # args.is_exception
          /\ before.nodes[j].isException # args.is_exception
          /\ astFile.nodes[i].isException = args.is_exception
          /\ astFile.nodes[j].isException = args.is_exception

\* ------------------------------------------------------------------------
\* A pass run over wildcard and degenerate rule strings
\* ------------------------------------------------------------------------
DotOnly == <<".">>
BlankRule == <<" ">>
HintOnly == Hint(KFunction, <<>>)

\* one or two declarations named Foo and Barista, the second nested in the
\* first or beside it
RulesTrees ==
    {<<Node(n1, k1, e1, 0, "cur")>> :
        n1 \in {Foo, Barista}, k1 \in KindSet, e1 \in ExSet}
    \cup
    {<<Node(n1, k1, e1, 0, "cur"), Node(n2, k2, e2, p, "cur")>> :
        n1 \in {Foo, Barista}, k1 \in KindSet, e1 \in ExSet,
        n2 \in {Foo, Barista}, k2 \in KindSet, e2 \in ExSet, p \in {0, 1}}

\* identifiers_to_update with a wildcard leaf, with strings that give no
\* leaf, the same beside a plain name, and two rules for one name
RulesLists ==
    {<<BarStar>>, <<BaQista>>, <<Barista>>, <<Rule(Foo, BarStar)>>,
     <<DotOnly>>, <<BlankRule>>, <<HintOnly>>, <<>>,
     <<DotOnly, Foo>>, <<BlankRule, Foo>>, <<HintOnly, Barista>>,
     <<Foo, Hint(KFunction, Foo)>>}

RulesArgs ==
    {[identifiers_to_update |-> l] @@ f :
        l \in RulesLists,
        f \in {ApplyConfigFlags, ExcludeFlags, ForceFlags, AnalyzerFlags}}

InitRules ==
    /\ astFile \in {[status |-> "list", nodes |-> t] : t \in RulesTrees}
    /\ args \in RulesArgs
    /\ passNo = 0
    /\ report = NoReport
    /\ before = astFile
    /\ pc = "idle" /\ entry = "none" /\ provider = FALSE
    /\ config = [include |-> <<>>, exclude |-> <<>>, policy |-> <<>>,
                 project_identifiers |-> {}]
    /\ ex_names = {} /\ conflicts = {} /\ exclude_candidates = {}
    /\ todo = <<>> /\ decided_to_exclude = {} /\ events = <<>>
    /\ outcome = "idle"
    /\ astStart = astFile /\ firstRun = NoFirstRun /\ parsed_targets = <<>>
    /\ MonitorIdle

NextRules == RunPass

SpecRules == InitRules /\ [][NextRules]_vars

\* the leaf test as the contract words it: equality, or a wildcard match
\* when the leaf holds * or ?
LeafFits(leaf, name) ==
    leaf = name \/ (has_wildcard(leaf) /\ fnmatchcase(name, leaf))

\* C25: in a pass without the explicit-zero gate, a visited node whose name
\* the leaf of a rule without parent path and kind hint fits, by equality
\* or as a wildcard pattern, is matched and holds the target value (so the
\* rule Bar* matches and updates the node Barista).
C25_AsStated ==
    (PassDone /\ ~args.only_when_explicit_zero) =>
        \A i \in report.visited, k \in 1..Len(PT) :
            ( /\ PT[k].parent_path = <<>> /\ PT[k].kind_hint = <<>>
              /\ PT[k].leaf # <<>>
              /\ LeafFits(PT[k].leaf, before.nodes[i].A_name)
              /\ (args.allowed_kinds = {}
                    \/ before.nodes[i].B_kind \in args.allowed_kinds) ) =>
                /\ i \in MatchedNodes
                /\ prev_val_of(report.mem[i]) = args.is_exception

\* the rule string x gives no leaf: it is blank, or _parse_spec returns an
\* empty leaf for it
NoLeaf(x) == Strip(x) = <<>> \/ parse_spec(x).leaf = <<>>

\* C26: a pass whose rule strings all give no leaf (blank, only dots, or a
\* kind prefix with nothing after it) matches no node, changes no
\* isException, counts nothing, leaves the stored document as it was and
\* does not fail.
C26_AsStated ==
    (PassDone /\ args.identifiers_to_update # <<>>
       /\ \A k \in 1..Len(args.identifiers_to_update) :
              NoLeaf(args.identifiers_to_update[k])) =>
        /\ MatchedNodes = {}
        /\ report.updated_nodes = 0 /\ report.already_same_nodes = 0
        /\ report.mem = before.nodes /\ astFile = before
        /\ ~report.failed

\* ------------------------------------------------------------------------
\* Counters
\* ------------------------------------------------------------------------
\* the nodes whose isException the last call changed in memory
FlippedNodes ==
    {i \in 1..Len(before.nodes) :
        report.mem[i].isException # before.nodes[i].isException}

\* C27: after a pass every matched node is counted once, in updated_nodes
\* or in already_same_nodes; updated_nodes is the number of nodes whose
\* isException changed, already_same_nodes counts only matched nodes that
\* held the target value before, and missing_ident_names is the set of
\* requested leaf names that no matched node carries.
C27_AsStated ==
    PassDone =>
        /\ report.updated_nodes + report.already_same_nodes
              = Cardinality(MatchedNodes)
        /\ report.updated_nodes = Cardinality(FlippedNodes)
        /\ report.already_same_nodes <=
              Cardinality({i \in MatchedNodes :
                  prev_val_of(before.nodes[i]) = args.is_exception})
        /\ report.missing_ident_names =
              ({PT[k].leaf : k \in 1..Len(PT)} \ {<<>>})
                  \ {before.nodes[i].A_name : i \in MatchedNodes}

\* C27: updated_nodes is the number of nodes whose isException changed, and
\* each of them is a matched node; already_same_nodes counts every other
\* match of a rule with a node, so the two counters add up to the number
\* of (node, rule) matches and a node that two rules fit is counted twice;
\* a matched node that did not change either held the target value (a
\* node without the field counting as 0) or was skipped by the
\* explicit-zero gate; missing_ident_names is the set of requested leaf
\* names that no matched node carries.
C27_CountersPerMatch ==
    PassDone =>
        /\ report.updated_nodes + report.already_same_nodes
              = Cardinality(report.matched_by)
        /\ report.updated_nodes = Cardinality(FlippedNodes)
        /\ FlippedNodes \subseteq MatchedNodes
        /\ \A i \in MatchedNodes \ FlippedNodes :
              \/ prev_val_of(before.nodes[i]) = args.is_exception
              \/ /\ args.only_when_explicit_zero /\ args.is_exception = 1
                 /\ before.nodes[i].isException = Absent
        /\ report.missing_ident_names =
              ({PT[k].leaf : k \in 1..Len(PT)} \ {<<>>})
                  \ {before.nodes[i].A_name : i \in MatchedNodes}

\* a node that two rules with the leaf Foo fit was changed and is counted
\* in both counters
C27_Witness ==
    /\ PassDone /\ Len(PT) = 2 /\ \A k \in 1..Len(PT) : PT[k].leaf = Foo
    /\ \E i \in FlippedNodes :
          Cardinality({m \in report.matched_by : m[1] = i}) = 2
    /\ report.updated_nodes = 1 /\ report.already_same_nodes = 1
    /\ Cardinality(MatchedNodes) = 1
    /\ Len(before.nodes) = 2

\* ------------------------------------------------------------------------
\* The walks of the index and of the update
\* ------------------------------------------------------------------------
\* the nodes whose names _collect_ex_names_rec collects: its walk goes into
\* the container keys and then into every other value of a node, so it
\* reaches a node under whatever key it hangs
indexed_nodes(nodes) ==
    {j \in 1..Len(nodes) :
        Strip(nodes[j].A_name) # <<>> /\ nodes[j].isException = 1}

\* C28: every node whose name the index walk puts into the protected-name
\* index is visited by a Matcher/Updater pass without lock_children.
C28_AsStated ==
    (PassDone /\ ~args.lock_children) =>
        indexed_nodes(before.nodes) \subseteq report.visited

\* ------------------------------------------------------------------------
\* Include before exclude
\* ------------------------------------------------------------------------
\* the conflict removal was approved: by the policy, or by a yes
ConflictRemovalApproved ==
    \/ policy_of(entry, config) = KForce
    \/ \E j \in 1..Len(events) :
          /\ events[j].ev = "prompt" /\ events[j].about = "conflicts"
          /\ events[j].reply = "yes"

\* the run of loader.py has returned after an exclude update that did not
\* fail
ExcludeApplied ==
    /\ pc = "done" /\ outcome = "returned" /\ entry = "loader"
    /\ events # <<>>
    /\ LET last == events[Len(events)] IN
          last.ev = "update" /\ last.about = "exclude" /\ last.saved

\* C29: in a run of _check_exception_conflicts everything done about the
\* conflicts (prompt and update with its write-back) comes before
\* everything done about the exclude candidates; and when the run has
\* returned after an exclude update that did not fail, every node under
\* container keys of a stored node list whose name is a conflict whose
\* removal was approved and an approved exclude candidate holds
\* isException 1.
C29_IncludeBeforeExclude ==
    /\ \A i, j \in 1..Len(events) :
          (events[i].about = "conflicts" /\ events[j].about = "exclude") => i < j
    /\ (ExcludeApplied /\ ConflictRemovalApproved /\ astFile.status = "list") =>
          \A i \in 1..Len(astFile.nodes) :
              ( /\ Strip(astFile.nodes[i].A_name) \in conflicts \cap decided_to_exclude
                /\ InContainers(astFile.nodes, i) ) =>
                  astFile.nodes[i].isException = 1

\* a function node protected at the start, named in both lists, was
\* lowered by the conflict update and raised again by the exclude update
C29_Witness ==
    /\ ExcludeApplied /\ ConflictRemovalApproved
    /\ astFile.status = "list" /\ before.status = "list"
    /\ \E i \in 1..Len(astFile.nodes) :
          /\ Strip(astFile.nodes[i].A_name) \in conflicts \cap decided_to_exclude
          /\ astStart.nodes[i].isException = 1
          /\ before.nodes[i].isException = 0
          /\ astFile.nodes[i].isException = 1

\* ------------------------------------------------------------------------
\* The preprocessing stage of handle_obfuscate: the child process, the
\* thread _reader and the main loop around line_queue
\* ------------------------------------------------------------------------
MaxLines == 3
TailLimit == 10
SpinnerLen == 4

NL == "\n"
\* what the child can write as one line of its output
RawLines ==
    {<<"A","s","t",":",NL>>, <<"x"," ","a","s","t",":",NL>>, <<"x">>,
     <<NL>>, <<" ",NL>>}

\* str.rstrip("\n")
RECURSIVE RStripNL(_)
RStripNL(s) ==
    IF s # <<>> /\ s[Len(s)] = NL THEN RStripNL(SubSeq(s, 1, Len(s) - 1)) ELSE s

\* str.startswith(p) and "p in s"
StartsWith(s, p) == Len(p) <= Len(s) /\ SubSeq(s, 1, Len(p)) = p
Contains(s, p) ==
    \E i \in 1..(Len(s) - Len(p) + 1) : SubSeq(s, i, i + Len(p) - 1) = p

\* the items of line_queue: a line, or the sentinel None
Item(line) == [none |-> FALSE, line |-> line]
Sentinel == [none |-> TRUE, line |-> <<>>]

\* the loop left as soon as the queue is empty
loop_exits_on_empty(seen_eof, queue_empty) == queue_empty

\* line 285: if eof and line_queue.empty(): break
loop_exits(seen_eof, queue_empty) == seen_eof /\ queue_empty

InitMonitor ==
    /\ astFile = [status |-> "missing", nodes |-> <<>>]
    /\ args = [identifiers_to_update |-> <<>>] @@ DefaultFlags
    /\ passNo = 0
    /\ report = NoReport
    /\ before = astFile
    /\ pc = "idle" /\ entry = "none" /\ provider = FALSE
    /\ config = [include |-> <<>>, exclude |-> <<>>, policy |-> <<>>,
                 project_identifiers |-> {}]
    /\ ex_names = {} /\ conflicts = {} /\ exclude_candidates = {}
    /\ todo = <<>> /\ decided_to_exclude = {} /\ events = <<>>
    /\ outcome = "idle"
    /\ astStart = astFile /\ firstRun = NoFirstRun /\ parsed_targets = <<>>
    /\ proc_out = <<>> /\ proc_closed = FALSE /\ written = 0
    /\ line_queue = <<>> /\ reader_pc = "read" /\ main_pc = "get"
    /\ eof = FALSE /\ done_ast = FALSE /\ tail1 = <<>> /\ sp_idx = 0
    /\ enqueued = <<>> /\ dequeued = <<>>

\* the child writes a line to its output
ChildWrite ==
    /\ ~proc_closed /\ written < MaxLines
    /\ \E raw \in RawLines : proc_out' = Append(proc_out, raw)
    /\ written' = written + 1
    /\ UNCHANGED <<passVars, runVars, histVars, proc_closed, line_queue,
                   reader_pc, main_pc, eof, done_ast, tail1, sp_idx,
                   enqueued, dequeued>>

\* the child closes its output (it ends)
ChildClose ==
    /\ ~proc_closed
    /\ proc_closed' = TRUE
    /\ UNCHANGED <<passVars, runVars, histVars, proc_out, written, line_queue,
                   reader_pc, main_pc, eof, done_ast, tail1, sp_idx,
                   enqueued, dequeued>>

\* _reader, lines 251-253: one turn of the loop over proc1.stdout
ReaderRead ==
    /\ reader_pc = "read" /\ proc_out # <<>>
    /\ LET line == RStripNL(Head(proc_out)) IN
          /\ line_queue' = Append(line_queue, Item(line))
          /\ enqueued' = Append(enqueued, Item(line))
    /\ proc_out' = Tail(proc_out)
    /\ UNCHANGED <<passVars, runVars, histVars, proc_closed, written,
                   reader_pc, main_pc, eof, done_ast, tail1, sp_idx, dequeued>>

\* _reader, lines 254-258: the loop ends at the end of the stream and the
\* finally clause puts the sentinel
ReaderEof ==
    /\ reader_pc = "read" /\ proc_out = <<>> /\ proc_closed
    /\ line_queue' = Append(line_queue, Sentinel)
    /\ enqueued' = Append(enqueued, Sentinel)
    /\ reader_pc' = "finished"
    /\ UNCHANGED <<passVars, runVars, histVars, proc_out, proc_closed, written,
                   main_pc, eof, done_ast, tail1, sp_idx, dequeued>>

\* _reader, lines 254-258: reading raises (a line that does not decode)
\* and the finally clause puts the sentinel
ReaderFail ==
    /\ reader_pc = "read" /\ proc_out # <<>>
    /\ line_queue' = Append(line_queue, Sentinel)
    /\ enqueued' = Append(enqueued, Sentinel)
    /\ reader_pc' = "finished"
    /\ UNCHANGED <<passVars, runVars, histVars, proc_out, proc_closed, written,
                   main_pc, eof, done_ast, tail1, sp_idx, dequeued>>

\* lines 264-283: get with its timeout (the empty string when the queue
\* is empty), the sentinel or the line, and the status shown
MainGet ==
    /\ main_pc = "get"
    /\ LET got == line_queue # <<>>
           item == IF got THEN Head(line_queue) ELSE Item(<<>>)
           low == StrLower(item.line)
       IN  /\ line_queue' = IF got THEN Tail(line_queue) ELSE line_queue
           /\ dequeued' = IF got THEN Append(dequeued, item) ELSE dequeued
           /\ eof' = (eof \/ item.none)
           /\ tail1' =
                 IF ~item.none /\ item.line # <<>> /\ Strip(item.line) # <<>>
                 THEN LET t == Append(tail1, item.line)
                      IN  IF Len(t) > TailLimit THEN Tail(t) ELSE t
                 ELSE tail1
           /\ done_ast' =
                 \/ done_ast
                 \/ /\ ~item.none /\ item.line # <<>>
                    /\ \/ StartsWith(low, <<"a","s","t",":">>)
                       \/ Contains(low, <<" ","a","s","t",":">>)
    /\ sp_idx' = (sp_idx + 1) % SpinnerLen
    /\ main_pc' = "check"
    /\ UNCHANGED <<passVars, runVars, histVars, proc_out, proc_closed, written,
                   reader_pc, enqueued>>

\* lines 285-287: leave the loop, or sleep and go round again
MainCheck ==
    /\ main_pc = "check"
    /\ main_pc' = IF loop_exits(eof, line_queue = <<>>) THEN "left" ELSE "get"
    /\ UNCHANGED <<passVars, runVars, histVars, proc_out, proc_closed, written,
                   line_queue, reader_pc, eof, done_ast, tail1, sp_idx,
                   enqueued, dequeued>>

ReaderStep == ReaderRead \/ ReaderEof
MainStep == MainGet \/ MainCheck

NextMonitor ==
    \/ ChildWrite
    \/ ChildClose
    \/ ReaderRead
    \/ ReaderEof
    \/ ReaderFail
    \/ MainGet
    \/ MainCheck

SpecMonitor == InitMonitor /\ [][NextMonitor]_vars

\* the thread _reader and the main thread both get to run
FairMonitor == SpecMonitor /\ WF_vars(ReaderStep) /\ WF_vars(MainStep)

\* the main loop has got every item put into line_queue, the sentinel
\* last and once
Drained ==
    /\ eof /\ line_queue = <<>>
    /\ dequeued = enqueued /\ dequeued # <<>>
    /\ \A i \in 1..Len(dequeued) : dequeued[i].none <=> i = Len(dequeued)

\* C30: in every interleaving of the child, _reader and the main loop, the
\* main loop has left only when it has got the sentinel and every line put
\* into line_queue before it; and once the child has closed its output
\* the main loop leaves in the end.
C30_MonitorLoop ==
    /\ [](main_pc = "left" => Drained)
    /\ (proc_closed ~> main_pc = "left")

\* the loop has left after MaxLines lines and the sentinel, one of the
\* lines about the AST and one shown in the tail
C30_Witness ==
    /\ main_pc = "left" /\ proc_closed
    /\ Len(dequeued) = MaxLines + 1
    /\ done_ast /\ tail1 # <<>> /\ Len(tail1) < MaxLines
====
